---- MODULE Spec2Model ----
(***************************************************************************)
(* Model of the InstaAutoDM cron job (src/index.js): checkComments and     *)
(* processPostComments running against the MongoDB collections             *)
(* automations, instagramAccounts, posts, directMessages, commentReplies   *)
(* and against the remote Graph API (token probe / refresh, comment fetch, *)
(* comment reply, username lookup, message send).                          *)
(*                                                                         *)
(* A step is one stage of the run: loading the automations, resolving the *)
(* account, obtaining the token, resolving the posts, fetching a post's    *)
(* comments, evaluating one comment (trigger, dedup, rate limit),          *)
(* dispatching for one comment (reply, DM, ledger records, stats) and      *)
(* writing the checkpoint.  Each store operation may raise (bounded by     *)
(* MaxFaults) and each remote call may fail.  Time is the wall clock read  *)
(* by new Date(), in milliseconds.                                         *)
(***************************************************************************)
EXTENDS Integers, Sequences, FiniteSets, Bags, TLC

VARIABLES
    clock,           \* wall clock, ms (what new Date() returns)
    accounts,        \* collection instagramAccounts: id -> document
    autoDb,          \* mutable fields of the automations documents
    directMessages,  \* collection directMessages: a bag of documents
    commentReplies,  \* collection commentReplies: a bag of documents
    inbox,           \* remote side: the messages the /messages endpoint accepted
    rateLimited,     \* (automation, comment) pairs logged as "Rate limit reached"
    active,          \* the automations whose active flag is set
    faults,          \* abnormal events so far: store outages (operations raise), crashes
    run              \* per run of checkComments: its local variables and position

vars == <<clock, accounts, autoDb, directMessages, commentReplies, inbox, rateLimited,
          active, faults, run>>

-----------------------------------------------------------------------------
(* Bounds of the model *)

MaxTicks == 1        \* the clock stops advancing after MaxTicks ticks
MaxFaults == 1       \* store operations that raise, and crashes, in one behaviour
TickMs == 90 * 60 * 1000     \* one tick of the modelled clock: 90 minutes

(* Program constants *)

HourMs == 60 * 60 * 1000     \* index.js:228
DefaultRateLimit == 10       \* index.js:236
ExpiresIn == 3600            \* data.expires_in of the refresh response, seconds

Null == -1                   \* null / undefined / absent field

-----------------------------------------------------------------------------
(* Strings are sequences of characters; String.prototype.toLowerCase and   *)
(* String.prototype.includes as the code uses them.                        *)

LowerChar(ch) ==
    CASE ch = "A" -> "a"
      [] ch = "H" -> "h"
      [] ch = "I" -> "i"
      [] ch = "N" -> "n"
      [] ch = "Y" -> "y"
      [] OTHER -> ch

toLowerCase(s) == [i \in DOMAIN s |-> LowerChar(s[i])]

includes(s, sub) ==
    \E i \in 0 .. (Len(s) - Len(sub)) : SubSeq(s, i + 1, i + Len(sub)) = sub

AnyKeyword == <<"a", "n", "y">>   \* the wildcard sentinel "any"

-----------------------------------------------------------------------------
(* Reference data held by the store and the remote side *)

NoPost == "none"     \* automation.postId absent: "any post" automation

\* Documents of the automations collection, in the order find() returns them;
\* their active flag is the variable active.
\* rateLimit 0 stands for a falsy rateLimit (absent): the code reads
\* automation.rateLimit || 10.
Automations ==
    << [_id |-> "A3", instagramAccountId |-> "acc9", postId |-> "P1",
        triggerKeyword |-> AnyKeyword, rateLimit |-> 0,
        replyToComments |-> FALSE, useOpeningMessage |-> FALSE],
       [_id |-> "A1", instagramAccountId |-> "acc1", postId |-> NoPost,
        triggerKeyword |-> <<"I">>, rateLimit |-> 1,
        replyToComments |-> TRUE, useOpeningMessage |-> FALSE],
       [_id |-> "A4", instagramAccountId |-> "acc1", postId |-> "P9",
        triggerKeyword |-> AnyKeyword, rateLimit |-> 0,
        replyToComments |-> FALSE, useOpeningMessage |-> FALSE],
       [_id |-> "A5", instagramAccountId |-> "acc1", postId |-> "P1",
        triggerKeyword |-> AnyKeyword, rateLimit |-> 0,
        replyToComments |-> TRUE, useOpeningMessage |-> FALSE],
       [_id |-> "A2", instagramAccountId |-> "acc1", postId |-> "P1",
        triggerKeyword |-> <<"I", "!">>, rateLimit |-> 0,
        replyToComments |-> FALSE, useOpeningMessage |-> TRUE],
       [_id |-> "A6", instagramAccountId |-> "acc2", postId |-> NoPost,
        triggerKeyword |-> AnyKeyword, rateLimit |-> 0,
        replyToComments |-> FALSE, useOpeningMessage |-> FALSE],
       [_id |-> "A7", instagramAccountId |-> "acc1", postId |-> "P3",
        triggerKeyword |-> AnyKeyword, rateLimit |-> 1,
        replyToComments |-> FALSE, useOpeningMessage |-> FALSE] >>

AutoIds == {Automations[i]._id : i \in DOMAIN Automations}

Auto(a) == CHOOSE d \in {Automations[i] : i \in DOMAIN Automations} : d._id = a

AccountIds == {"acc1", "acc2"}

\* Expiry of the credential each account holds when the job first runs: acc1
\* holds a long-lived credential with a day left, that of acc2 has expired.
\* acc2 has no posts on file.
InitialExpiry(a) == IF a = "acc1" THEN 24 * HourMs ELSE 0

\* Documents of the posts collection, in the order find() returns them.
Posts ==
    << [_id |-> "P1", instagramAccountId |-> "acc1", instagramId |-> "m1"],
       [_id |-> "P2", instagramAccountId |-> "acc1", instagramId |-> "m2"],
       [_id |-> "P3", instagramAccountId |-> "acc9", instagramId |-> "m3"] >>

PostIds == {Posts[i]._id : i \in DOMAIN Posts}

Post(p) == CHOOSE d \in {Posts[i] : i \in DOMAIN Posts} : d._id = p

\* Comments on the remote side: id, remote post id, text, username, timestamp (ms).
Comments ==
    << [id |-> "c1", post |-> "m1", text |-> <<"h", "I", "!">>, username |-> "bob",
        timestamp |-> TickMs \div 2],
       [id |-> "c2", post |-> "m1", text |-> <<"i">>, username |-> "bob",
        timestamp |-> TickMs \div 2],
       [id |-> "c3", post |-> "m2", text |-> <<"H", "I">>, username |-> "dan",
        timestamp |-> TickMs \div 2],
       [id |-> "c4", post |-> "m3", text |-> <<"h", "i">>, username |-> "bob",
        timestamp |-> TickMs \div 2],
       [id |-> "c5", post |-> "m3", text |-> <<"h", "i">>, username |-> "dan",
        timestamp |-> TickMs \div 2],
       [id |-> "c6", post |-> "m3", text |-> <<"h", "i">>, username |-> "dan",
        timestamp |-> TickMs + TickMs \div 2] >>

CommentIds == {Comments[i].id : i \in DOMAIN Comments}

Comment(c) == CHOOSE d \in {Comments[i] : i \in DOMAIN Comments} : d.id = c

Usernames == {Comments[i].username : i \in DOMAIN Comments}

\* The sets of automations that are active in the store when the job starts.
ActiveSets == {{"A3", "A1", "A4"}, {"A4", "A2"}, {"A5"}, {"A6"}, {"A7"}}

Runs == {"r1", "r2"}       \* invocations of the cron job that may be alive
SeqRuns == {"r1"}          \* the scheduler starts one instance at a time

-----------------------------------------------------------------------------
(* Local state of one run of checkComments *)

NoTok == [probe |-> "none", refresh |-> "none", stored |-> "none",
          returned |-> Null, before |-> Null, writes |-> 0]

\* Outcome of the reply step and the DM step for the comment handled last.
NoLast == [reply |-> "none", dm |-> "none", logged |-> FALSE]

NoResult == [kind |-> "none", automationsProcessed |-> 0,
             commentsProcessed |-> 0, messagesSent |-> 0]

InitRun ==
    [pc |-> "idle",
     autos |-> <<>>,          \* automations as loaded: id and lastChecked
     idx |-> 0,               \* position of the for loop over automations
     totalProcessed |-> 0,    \* const totalProcessed of checkComments
     totalSent |-> 0,         \* const totalSent of checkComments
     token |-> Null,          \* instagramAccount.accessToken in memory
     tok |-> NoTok,           \* outcome of the getValidTokenForAccount call
     posts |-> <<>>,          \* posts still to process for this automation
     comments |-> <<>>,       \* comments still to process for this post
     fetchOk |-> TRUE,        \* whether the fetch for this post succeeded
     ppProcessed |-> 0,       \* parameter totalProcessed of processPostComments
     ppSent |-> 0,            \* parameter totalSent of processPostComments
     cpWrites |-> 0,          \* lastChecked writes during this automation
     visited |-> {},          \* automations whose loop iteration was entered
     fetched |-> 0,           \* comments fetched during this run
     sentOk |-> 0,            \* remote sends that succeeded during this run
     last |-> NoLast,         \* what the reply and DM steps just did
     result |-> NoResult]     \* value checkComments returned

\* The store and the remote side before the job has ever run.
Pristine ==
    /\ clock = TickMs
    /\ accounts = [a \in AccountIds |->
                     [accessToken |-> 1, expiresAt |-> InitialExpiry(a),
                      lastTokenRefresh |-> Null]]
    /\ autoDb = [a \in AutoIds |->
                     [lastChecked |-> Null, totalDMsSent |-> 0, lastTriggered |-> Null]]
    /\ directMessages = EmptyBag
    /\ commentReplies = EmptyBag
    /\ inbox = EmptyBag
    /\ rateLimited = {}
    /\ run = [r \in Runs |-> InitRun]

Init ==
    /\ Pristine
    /\ active \in ActiveSets
    /\ faults = 0

\* A store operation raises (connection lost, write rejected).
StoreRaises ==
    /\ faults < MaxFaults
    /\ faults' = faults + 1

SetRun(r, l) == run' = [run EXCEPT ![r] = l]

\* collection.insertOne(doc): each inserted document gets its own _id
InsertOne(coll, doc) == coll (+) SetToBag({doc})

CurId(l) == l.autos[l.idx].id
CurAuto(l) == Auto(CurId(l))

-----------------------------------------------------------------------------
(* checkComments: connect, load the active automations *)

ActiveAutomations == SelectSeq(Automations, LAMBDA d : d._id \in active)

LoadedAutomations ==
    [i \in 1 .. Len(ActiveAutomations) |->
        [id |-> ActiveAutomations[i]._id,
         lastChecked |-> autoDb[ActiveAutomations[i]._id].lastChecked]]

Load(r) ==
    /\ run[r].pc \in {"idle", "done"}
    /\ SetRun(r, [InitRun EXCEPT !.pc = "account", !.autos = LoadedAutomations, !.idx = 1])
    /\ UNCHANGED <<clock, accounts, autoDb, directMessages, commentReplies, inbox, rateLimited, active, faults>>

\* client.connect() or the find raises: the outer catch returns the error indicator.
LoadFails(r) ==
    /\ run[r].pc \in {"idle", "done"}
    /\ StoreRaises
    /\ SetRun(r, [InitRun EXCEPT !.pc = "done", !.result = [NoResult EXCEPT !.kind = "error"]])
    /\ UNCHANGED <<clock, accounts, autoDb, directMessages, commentReplies, inbox, rateLimited, active>>

\* `continue`, the end of the loop body, or the catch of the per-automation try:
\* the for loop moves on to the next automation.
NextAutomation(l) ==
    [l EXCEPT !.idx = @ + 1, !.pc = "account", !.token = Null, !.tok = NoTok,
              !.posts = <<>>, !.comments = <<>>, !.fetchOk = TRUE,
              !.ppProcessed = 0, !.ppSent = 0,
              !.cpWrites = 0, !.last = NoLast]

\* Mutation: the error leaves the loop and reaches the outer catch.
AutomationFailed_Rethrown(l) ==
    [l EXCEPT !.pc = "done", !.result = [NoResult EXCEPT !.kind = "error"]]

\* The catch of the per-automation try logs the error; the loop goes on.
AutomationFailed(l) == NextAutomation(l)

ResolveAccount(r) ==
    LET l == run[r] IN
    /\ l.pc = "account"
    /\ l.idx <= Len(l.autos)
    /\ LET v == [l EXCEPT !.visited = @ \cup {CurId(l)}] IN
       \/ /\ CurAuto(l).instagramAccountId \in DOMAIN accounts
          /\ SetRun(r, [v EXCEPT !.pc = "token"])
          /\ UNCHANGED faults
       \/ /\ CurAuto(l).instagramAccountId \notin DOMAIN accounts
          /\ SetRun(r, NextAutomation(v))
          /\ UNCHANGED faults
       \/ /\ StoreRaises
          /\ SetRun(r, AutomationFailed(v))
    /\ UNCHANGED <<clock, accounts, autoDb, directMessages, commentReplies, inbox, rateLimited, active>>

Summary(l) ==
    [kind |-> "summary", automationsProcessed |-> Len(l.autos),
     commentsProcessed |-> l.totalProcessed, messagesSent |-> l.totalSent]

Report(r) ==
    LET l == run[r] IN
    /\ l.pc = "account"
    /\ l.idx > Len(l.autos)
    /\ SetRun(r, [l EXCEPT !.pc = "done", !.result = Summary(l)])
    /\ UNCHANGED <<clock, accounts, autoDb, directMessages, commentReplies, inbox, rateLimited, active, faults>>

-----------------------------------------------------------------------------
(* getValidTokenForAccount and refreshInstagramToken *)

\* newExpiryDate.setSeconds(getSeconds() + expiresIn)
NewExpiryDate(t, expiresIn) == t + expiresIn * 1000

\* Mutation: the $set leaves out accessToken.
RefreshedAccount_KeepsToken(doc, newToken, t) ==
    [doc EXCEPT !.expiresAt = NewExpiryDate(t, ExpiresIn),
                !.lastTokenRefresh = t]

RefreshedAccount(doc, newToken, t) ==
    [doc EXCEPT !.accessToken = newToken,
                !.expiresAt = NewExpiryDate(t, ExpiresIn),
                !.lastTokenRefresh = t]

\* data.access_token of the refresh response: a credential other than the old one.
NewToken(old) == 3 - old

\* The remote side accepts a credential until its expiry: the probe answers ok
\* before it, and not ok from then on.
TokenValid(doc, t) == t < doc.expiresAt

GetValidToken(r) ==
    LET l == run[r]
        acc == CurAuto(l).instagramAccountId
        doc == accounts[acc]
        t0 == [NoTok EXCEPT !.before = doc]
    IN
    /\ l.pc = "token"
    /\ \/ \* findOne raises: the catch returns null
          /\ StoreRaises
          /\ SetRun(r, [l EXCEPT !.pc = "tokenDone", !.tok = [t0 EXCEPT !.stored = "raised"]])
          /\ UNCHANGED accounts
       \/ \* probe succeeds: the stored credential is returned
          /\ TokenValid(doc, clock)
          /\ SetRun(r, [l EXCEPT !.pc = "tokenDone",
                                 !.tok = [t0 EXCEPT !.probe = "ok", !.returned = doc.accessToken]])
          /\ UNCHANGED <<accounts, faults>>
       \/ \* probe fails, refresh fails
          /\ ~TokenValid(doc, clock)
          /\ SetRun(r, [l EXCEPT !.pc = "tokenDone",
                                 !.tok = [t0 EXCEPT !.probe = "fail", !.refresh = "fail"]])
          /\ UNCHANGED <<accounts, faults>>
       \/ \* probe fails, refresh succeeds, the account is updated
          /\ ~TokenValid(doc, clock)
          /\ accounts' = [accounts EXCEPT ![acc] = RefreshedAccount(doc, NewToken(doc.accessToken), clock)]
          /\ SetRun(r, [l EXCEPT !.pc = "tokenDone",
                                 !.tok = [t0 EXCEPT !.probe = "fail", !.refresh = "ok",
                                                    !.stored = "ok", !.writes = 1,
                                                    !.returned = NewToken(doc.accessToken)]])
          /\ UNCHANGED faults
       \/ \* probe fails, refresh succeeds, updateOne raises: the catch returns null
          /\ ~TokenValid(doc, clock)
          /\ StoreRaises
          /\ SetRun(r, [l EXCEPT !.pc = "tokenDone",
                                 !.tok = [t0 EXCEPT !.probe = "fail", !.refresh = "ok",
                                                    !.stored = "raised"]])
          /\ UNCHANGED accounts
    /\ UNCHANGED <<clock, autoDb, directMessages, commentReplies, inbox, rateLimited, active>>

\* if (!validToken) continue; instagramAccount.accessToken = validToken
UseToken(r) ==
    LET l == run[r] IN
    /\ l.pc = "tokenDone"
    /\ IF l.tok.returned = Null
       THEN SetRun(r, NextAutomation(l))
       ELSE SetRun(r, [l EXCEPT !.pc = "posts", !.token = l.tok.returned, !.tok = NoTok])
    /\ UNCHANGED <<clock, accounts, autoDb, directMessages, commentReplies, inbox, rateLimited, active, faults>>

-----------------------------------------------------------------------------
(* checkComments: the posts of the automation's scope *)

PostsOfAccount(acc) ==
    LET sel == SelectSeq(Posts, LAMBDA d : d.instagramAccountId = acc)
    IN [i \in 1 .. Len(sel) |-> sel[i]._id]

ResolvePosts(r) ==
    LET l == run[r]
        a == CurAuto(l)
    IN
    /\ l.pc = "posts"
    /\ \/ \* "any post" automation: all posts on file for the account
          /\ a.postId = NoPost
          /\ SetRun(r, [l EXCEPT !.pc = "fetch", !.posts = PostsOfAccount(a.instagramAccountId)])
          /\ UNCHANGED faults
       \/ /\ a.postId # NoPost
          /\ a.postId \in PostIds
          /\ SetRun(r, [l EXCEPT !.pc = "fetch", !.posts = <<a.postId>>])
          /\ UNCHANGED faults
       \/ \* post not found: continue
          /\ a.postId # NoPost
          /\ a.postId \notin PostIds
          /\ SetRun(r, NextAutomation(l))
          /\ UNCHANGED faults
       \/ \* the find raises: caught by the per-automation catch
          /\ StoreRaises
          /\ SetRun(r, AutomationFailed(l))
    /\ UNCHANGED <<clock, accounts, autoDb, directMessages, commentReplies, inbox, rateLimited, active>>

\* All posts of the scope are done: the loop body of checkComments ends.
EndAutomation(r) ==
    LET l == run[r] IN
    /\ l.pc = "fetch"
    /\ l.posts = <<>>
    /\ SetRun(r, NextAutomation(l))
    /\ UNCHANGED <<clock, accounts, autoDb, directMessages, commentReplies, inbox, rateLimited, active, faults>>

-----------------------------------------------------------------------------
(* getPostComments *)

\* Date.prototype.toISOString: seconds and milliseconds of the instant.
toISOString(ms) == <<ms \div 1000, ms % 1000>>

\* The remote side reads the since parameter back.
ParseISO(iso) == iso[1] * 1000 + iso[2]

\* Mutation: the since bound is always the epoch.
LastChecked_Epoch(loaded) == 0

\* automation.lastChecked || new Date(0)
LastChecked(loaded) == IF loaded.lastChecked = Null THEN 0 ELSE loaded.lastChecked

\* The comments the remote side holds for a post that are not older than since.
RemoteComments(instagramId, since, t) ==
    {Comments[i].id : i \in {j \in DOMAIN Comments :
        /\ Comments[j].post = instagramId
        /\ Comments[j].timestamp >= ParseISO(since)
        /\ Comments[j].timestamp <= t}}

\* The order of the returned comments is the remote side's choice.
Orderings(S) ==
    {s \in [1 .. Cardinality(S) -> S] : \A i, j \in DOMAIN s : i # j => s[i] # s[j]}

\* processPostComments starts: totalProcessed += comments.length on its own copy.
Fetched(l, cs, ok) ==
    [l EXCEPT !.pc = "comment", !.comments = cs, !.fetchOk = ok,
              !.ppProcessed = l.totalProcessed + Len(cs),
              !.ppSent = l.totalSent,
              !.fetched = @ + Len(cs), !.last = NoLast]

FetchComments(r) ==
    LET l == run[r]
        post == Post(Head(l.posts))
        since == toISOString(LastChecked(l.autos[l.idx]))
    IN
    /\ l.pc = "fetch"
    /\ l.posts # <<>>
    /\ \/ \E cs \in Orderings(RemoteComments(post.instagramId, since, clock)) :
             SetRun(r, Fetched(l, cs, TRUE))
       \/ \* non-success response or network error: getPostComments returns []
          SetRun(r, Fetched(l, <<>>, FALSE))
    /\ UNCHANGED <<clock, accounts, autoDb, directMessages, commentReplies, inbox, rateLimited, active, faults>>

-----------------------------------------------------------------------------
(* processPostComments: the loop over the comments *)

\* The function returns (normally, or through its catch): next post of the scope.
PostDone(l) ==
    [l EXCEPT !.pc = "fetch", !.posts = Tail(@), !.comments = <<>>, !.fetchOk = TRUE,
              !.ppProcessed = 0, !.ppSent = 0, !.last = NoLast]

\* `continue` or the end of the loop body: next comment.
NextComment(l) ==
    [l EXCEPT !.pc = "comment", !.comments = Tail(@), !.last = NoLast]

\* Mutation: the arguments of includes() swapped.
TriggerMatched_Swapped(a, c) ==
    \/ a.triggerKeyword = AnyKeyword
    \/ includes(toLowerCase(a.triggerKeyword), toLowerCase(c.text))

TriggerMatched(a, c) ==
    \/ a.triggerKeyword = AnyKeyword
    \/ includes(toLowerCase(c.text), toLowerCase(a.triggerKeyword))

\* Mutation: the count filters on status "failed".
CountRecentDMs_WrongStatus(dms, automationId, oneHourAgo) ==
    BagCardinality([d \in {e \in BagToSet(dms) :
                               /\ e.automationId = automationId
                               /\ e.sentAt >= oneHourAgo
                               /\ e.status = "failed"} |-> dms[d]])

\* Mutation: the query names the field as the commentReplies documents do
\* (username), which no directMessages document has.
ExistingDM_WrongField(dms, automationId, username) ==
    \E d \in BagToSet(dms) :
        /\ d.automationId = automationId
        /\ "username" \in DOMAIN d
        /\ d.username = username

\* Mutation: the query also filters on status "sent".
ExistingDM_SentOnly(dms, automationId, username) ==
    \E d \in BagToSet(dms) :
        /\ d.automationId = automationId
        /\ d.recipientUsername = username
        /\ d.status = "sent"

\* directMessages.findOne({automationId, recipientUsername})
ExistingDM(dms, automationId, username) ==
    \E d \in BagToSet(dms) :
        /\ d.automationId = automationId
        /\ d.recipientUsername = username

\* directMessages.countDocuments({automationId, sentAt: {$gte: oneHourAgo}, status: "sent"})
CountRecentDMs(dms, automationId, oneHourAgo) ==
    BagCardinality([d \in {e \in BagToSet(dms) :
                               /\ e.automationId = automationId
                               /\ e.sentAt >= oneHourAgo
                               /\ e.status = "sent"} |-> dms[d]])

\* Mutation: the configured rateLimit is ignored.
Ceiling_DefaultOnly(a) == DefaultRateLimit

\* automation.rateLimit || 10
Ceiling(a) == IF a.rateLimit = 0 THEN DefaultRateLimit ELSE a.rateLimit

\* Mutation: > in place of >=.
RateLimitReached_Strict(recentDMs, a) == recentDMs > Ceiling(a)

RateLimitReached(recentDMs, a) == recentDMs >= Ceiling(a)

\* One comment of the batch: trigger, dedup query, rate-limit count.
Evaluate(r) ==
    LET l == run[r]
        a == CurAuto(l)
        c == Comment(Head(l.comments))
        now == clock
        oneHourAgo == now - HourMs
        recentDMs == CountRecentDMs(directMessages, a._id, oneHourAgo)
    IN
    /\ l.pc = "comment"
    /\ l.comments # <<>>
    /\ \/ /\ ~TriggerMatched(a, c)
          /\ SetRun(r, NextComment(l))
          /\ UNCHANGED <<faults, rateLimited>>
       \/ /\ TriggerMatched(a, c)
          /\ ExistingDM(directMessages, a._id, c.username)
          /\ SetRun(r, NextComment(l))
          /\ UNCHANGED <<faults, rateLimited>>
       \/ /\ TriggerMatched(a, c)
          /\ ~ExistingDM(directMessages, a._id, c.username)
          /\ RateLimitReached(recentDMs, a)
          /\ SetRun(r, NextComment(l))
          /\ rateLimited' = rateLimited \cup {<<a._id, c.id>>}
          /\ UNCHANGED faults
       \/ /\ TriggerMatched(a, c)
          /\ ~ExistingDM(directMessages, a._id, c.username)
          /\ ~RateLimitReached(recentDMs, a)
          /\ SetRun(r, [l EXCEPT !.pc = "dispatch", !.last = NoLast])
          /\ UNCHANGED <<faults, rateLimited>>
       \/ \* findOne or countDocuments raises: caught by the catch of processPostComments
          /\ TriggerMatched(a, c)
          /\ StoreRaises
          /\ SetRun(r, PostDone(l))
          /\ UNCHANGED rateLimited
    /\ UNCHANGED <<clock, accounts, autoDb, directMessages, commentReplies, inbox, active>>

-----------------------------------------------------------------------------
(* processPostComments: reply step and DM step for one comment;            *)
(* replyToComment, sendDirectMessage, sendDirectMessageWithButton          *)

ReplyRecord(a, c) ==
    [automationId |-> a._id, commentId |-> c.id, username |-> c.username,
     status |-> "sent"]

SentRecord(a, c, t) ==
    [automationId |-> a._id, recipientUsername |-> c.username, commentId |-> c.id,
     type |-> IF a.useOpeningMessage THEN "opening" ELSE "direct",
     status |-> "sent", error |-> "none", sentAt |-> t]

\* Mutation: the catch logs the failure with status "sent".
FailedRecord_MarkedSent(a, c, error) ==
    [automationId |-> a._id, recipientUsername |-> c.username, commentId |-> c.id,
     type |-> "none", status |-> "sent", error |-> error, sentAt |-> Null]

FailedRecord(a, c, error) ==
    [automationId |-> a._id, recipientUsername |-> c.username, commentId |-> c.id,
     type |-> "none", status |-> "failed", error |-> error, sentAt |-> Null]

\* What the reply step can do: not enabled; replyToComment throws; replied and
\* logged; replied and the insertOne of the log raises (same catch).
\* Mutation: the reply step runs whatever replyToComments says.
ReplyOutcomes_Always(a) == {"failed", "replied", "repliedInsertRaised"}

ReplyOutcomes(a) ==
    IF a.replyToComments THEN {"failed", "replied", "repliedInsertRaised"} ELSE {"skipped"}

\* What the try block of the DM step can do: the username lookup throws; the
\* messages call throws; sent and logged and stats updated; sent and the insertOne
\* raises; sent and logged and the stats updateOne raises.
DmOutcomes == {"lookupFailed", "sendFailed", "sent", "sentInsertRaised", "sentStatsRaised"}

\* The exception the DM step's catch receives, "none" when the try block completes.
Caught(dm) ==
    CASE dm = "lookupFailed" -> "lookup"
      [] dm = "sendFailed" -> "send"
      [] dm = "sentInsertRaised" -> "store"
      [] dm = "sentStatsRaised" -> "store"
      [] OTHER -> "none"

\* Store outages met by the reply step and by the try block of the DM step.
Raised(reply, dm) ==
    (IF reply = "repliedInsertRaised" THEN 1 ELSE 0)
    + (IF dm \in {"sentInsertRaised", "sentStatsRaised"} THEN 1 ELSE 0)

\* Store outages met by the catch of the DM step.  When a store operation of the
\* try block has just raised, the insertOne of the catch is the next store
\* operation and raises in the same outage.
RaisedInCatch(dm, catchInsertOk) ==
    IF Caught(dm) \in {"lookup", "send"} /\ ~catchInsertOk THEN 1 ELSE 0

\* The sent DM is logged before anything after it can raise.
SentLogged(dm) == dm \in {"sent", "sentStatsRaised"}

RemoteSent(dm) == dm \in {"sent", "sentInsertRaised", "sentStatsRaised"}

\* The catch of the DM step logs a failed DM.
LogsFailure(dm, catchInsertOk) == Caught(dm) # "none" /\ catchInsertOk

Dispatch(r) ==
    LET l == run[r]
        a == CurAuto(l)
        c == Comment(Head(l.comments))
    IN
    /\ l.pc = "dispatch"
    /\ \E reply \in ReplyOutcomes(a), dm \in DmOutcomes, catchInsertOk \in BOOLEAN :
          LET raised == Raised(reply, dm) + RaisedInCatch(dm, catchInsertOk)
              afterSent == IF SentLogged(dm)
                           THEN InsertOne(directMessages, SentRecord(a, c, clock))
                           ELSE directMessages
              m == [l EXCEPT !.sentOk = IF RemoteSent(dm) THEN @ + 1 ELSE @,
                             !.ppSent = IF SentLogged(dm) THEN @ + 1 ELSE @]
              out == [reply |-> reply, dm |-> dm, logged |-> LogsFailure(dm, catchInsertOk)]
          IN
          /\ Caught(dm) = "none" => catchInsertOk
          /\ faults + raised <= MaxFaults
          /\ faults' = faults + raised
          /\ commentReplies' = IF reply = "replied"
                               THEN InsertOne(commentReplies, ReplyRecord(a, c))
                               ELSE commentReplies
          /\ directMessages' = IF LogsFailure(dm, catchInsertOk)
                               THEN InsertOne(afterSent, FailedRecord(a, c, Caught(dm)))
                               ELSE afterSent
          /\ autoDb' = IF dm = "sent"
                       THEN [autoDb EXCEPT ![a._id].totalDMsSent = @ + 1,
                                           ![a._id].lastTriggered = clock]
                       ELSE autoDb
          \* insertOne raising inside the catch is caught by the catch of
          \* processPostComments
          /\ inbox' = IF RemoteSent(dm)
                       THEN inbox (+) SetToBag({<<a._id, c.username>>})
                       ELSE inbox
          /\ SetRun(r, [(IF catchInsertOk THEN NextComment(m) ELSE PostDone(m))
                           EXCEPT !.last = out])
    /\ UNCHANGED <<clock, accounts, rateLimited, active>>

-----------------------------------------------------------------------------
(* processPostComments: the last checked time *)

Checkpoint(r) ==
    LET l == run[r]
        a == CurAuto(l)
    IN
    /\ l.pc = "comment"
    /\ l.comments = <<>>
    /\ \/ /\ autoDb' = [autoDb EXCEPT ![a._id].lastChecked = clock]
          /\ SetRun(r, [PostDone(l) EXCEPT !.cpWrites = @ + 1])
          /\ UNCHANGED faults
       \/ \* updateOne raises
          /\ StoreRaises
          /\ SetRun(r, PostDone(l))
          /\ UNCHANGED autoDb
    /\ UNCHANGED <<clock, accounts, directMessages, commentReplies, inbox, rateLimited, active>>

-----------------------------------------------------------------------------
(* Environment *)

\* Time passes between any two steps.
Tick ==
    /\ clock < (MaxTicks + 1) * TickMs
    /\ clock' = clock + TickMs
    /\ UNCHANGED <<accounts, autoDb, directMessages, commentReplies, inbox, rateLimited, active, faults, run>>

\* The process dies in the middle of a run; nothing it held in memory survives.
Crash(r) ==
    /\ run[r].pc \notin {"idle", "done"}
    /\ faults < MaxFaults
    /\ faults' = faults + 1
    /\ SetRun(r, InitRun)
    /\ UNCHANGED <<clock, accounts, autoDb, directMessages, commentReplies, inbox, rateLimited, active>>

Step(r) ==
    \/ Load(r)
    \/ LoadFails(r)
    \/ ResolveAccount(r)
    \/ Report(r)
    \/ GetValidToken(r)
    \/ UseToken(r)
    \/ ResolvePosts(r)
    \/ EndAutomation(r)
    \/ FetchComments(r)
    \/ Evaluate(r)
    \/ Dispatch(r)
    \/ Checkpoint(r)
    \/ Crash(r)

Next ==
    \/ \E r \in SeqRuns : Step(r)
    \/ Tick

Spec == Init /\ [][Next]_vars

-----------------------------------------------------------------------------
(* Overlapping runs: two invocations of the job alive at the same time, with *)
(* no serialization between them.  Each is started once; their steps         *)
(* interleave at every await.  No store outage and no crash happens (the     *)
(* budget of abnormal events is spent from the start), and the clock stands  *)
(* still.                                                                    *)

OverlapActive == {"A1"}

InitOverlap ==
    /\ Pristine
    /\ active = OverlapActive
    /\ faults = MaxFaults

\* The scheduler starts the instance.
Start(r) == run[r].pc = "idle" /\ Load(r)

StepOverlap(r) ==
    \/ Start(r)
    \/ ResolveAccount(r)
    \/ Report(r)
    \/ GetValidToken(r)
    \/ UseToken(r)
    \/ ResolvePosts(r)
    \/ EndAutomation(r)
    \/ FetchComments(r)
    \/ Evaluate(r)
    \/ Dispatch(r)
    \/ Checkpoint(r)

NextOverlap == \E r \in Runs : StepOverlap(r)

SpecOverlap == InitOverlap /\ [][NextOverlap]_vars

-----------------------------------------------------------------------------
(* Vocabulary of the properties, stated on the collections themselves *)

\* Number of documents of a collection among the distinct documents in S.
CountOf(coll, S) == BagCardinality([d \in S |-> coll[d]])

IsSentDM(d) == d.status = "sent" /\ d.type \in {"direct", "opening"}

\* Sent DM records of kind direct / opening for the pair (automation, recipient).
SentDMs(a, u) ==
    CountOf(directMessages,
            {d \in BagToSet(directMessages) :
                d.automationId = a /\ d.recipientUsername = u /\ IsSentDM(d)})

\* Records of any status for the pair.
LedgerRecords(a, u) ==
    CountOf(directMessages,
            {d \in BagToSet(directMessages) :
                d.automationId = a /\ d.recipientUsername = u})

\* Sent records of the automation in the 60 minutes before time t.
SentInLastHour(a, t) ==
    CountOf(directMessages,
            {d \in BagToSet(directMessages) :
                d.automationId = a /\ d.status = "sent" /\ d.sentAt >= t - 3600000})

\* The run is inside the loop over the comments of a post.
InBatch(r) == run[r].pc \in {"comment", "dispatch"}

\* The run is about to evaluate, or is dispatching for, a comment.
AtComment(r) == InBatch(r) /\ run[r].comments # <<>>

CurComment(r) == Comment(Head(run[r].comments))

\* The run has gone through every comment of a fetched batch of n comments.
BatchDone(r, n) ==
    /\ run[r].pc = "comment"
    /\ run[r].comments = <<>>
    /\ run[r].fetchOk
    /\ run[r].ppProcessed = n

\* Case folding and substring test of the trigger rule.
Fold(s) ==
    [i \in DOMAIN s |->
        IF s[i] \in {"A", "H", "I", "N", "Y"}
        THEN CHOOSE ch \in {"a", "h", "i", "n", "y"} :
                <<s[i], ch>> \in {<<"A", "a">>, <<"H", "h">>, <<"I", "i">>,
                                  <<"N", "n">>, <<"Y", "y">>}
        ELSE s[i]]

IsInfix(sub, s) ==
    \E pre, post \in 0 .. Len(s) :
        /\ pre + Len(sub) + post = Len(s)
        /\ \A k \in 1 .. Len(sub) : s[pre + k] = sub[k]

\* The trigger of automation a does not match comment c.
NoTriggerMatch(a, c) ==
    /\ Auto(a).triggerKeyword # <<"a", "n", "y">>
    /\ ~IsInfix(Fold(Auto(a).triggerKeyword), Fold(Comment(c).text))

\* The steps of a run leave both collections as they are.
CollectionsUnchanged ==
    /\ directMessages' = directMessages
    /\ commentReplies' = commentReplies

-----------------------------------------------------------------------------
(* C1 *)

\* C1: for every (automation, recipient) pair the directMessages ledger holds at
\* most one record with status sent of type direct or opening, after any number
\* of sequential runs, with overlapping fetches and with batches that hold
\* several matching comments of one author.
C1_AtMostOneSentDM ==
    \A d \in BagToSet(directMessages) :
        IsSentDM(d) => SentDMs(d.automationId, d.recipientUsername) <= 1

\* A batch with the two matching comments of bob went through evaluation while the
\* ledger holds the sent record for (A1, bob).
C1_Witness ==
    \E r \in Runs :
        /\ BatchDone(r, 2)
        /\ CurId(run[r]) = "A1"
        /\ SentDMs("A1", "bob") = 1

-----------------------------------------------------------------------------
(* C2 *)

\* C2: once the ledger holds any record (sent or failed) for (automation,
\* recipient), a step taken while a matching comment of that recipient is up for
\* evaluation under that automation appends nothing to the ledger or the reply
\* log and does not enter the dispatch stage (no reply call, no send call).
C2_DedupOnAnyStatus ==
    [][\A r \in Runs :
          (/\ AtComment(r)
           /\ ~NoTriggerMatch(CurId(run[r]), CurComment(r).id)
           /\ LedgerRecords(CurId(run[r]), CurComment(r).username) > 0)
          => (CollectionsUnchanged /\ run'[r].pc # "dispatch")]_vars

\* Both comments of bob went through evaluation under A1 and the only record of
\* the pair is a failed one: the second comment was suppressed by a failed record.
C2_Witness ==
    \E r \in Runs :
        /\ BatchDone(r, 2)
        /\ CurId(run[r]) = "A1"
        /\ LedgerRecords("A1", "bob") = 1
        /\ SentDMs("A1", "bob") = 0

-----------------------------------------------------------------------------
(* C3 *)

\* The ceiling of the claim: automation.rateLimit, 10 when it is not set.
C3_Ceiling(a) == IF Auto(a).rateLimit = 0 THEN 10 ELSE Auto(a).rateLimit

\* A matching comment of a recipient without a ledger record is up for evaluation.
C3_AtGate(r) ==
    /\ run[r].pc = "comment"
    /\ run[r].comments # <<>>
    /\ ~NoTriggerMatch(CurId(run[r]), CurComment(r).id)
    /\ LedgerRecords(CurId(run[r]), CurComment(r).username) = 0

\* C3: when a matching, not yet handled comment is evaluated while the automation
\* has at least ceiling sent records in the trailing 60 minutes, the step adds no
\* record and does not enter the dispatch stage; when the count is below the
\* ceiling and the queries succeed, the comment enters the dispatch stage.
C3_RateLimitGate ==
    [][\A r \in Runs :
          C3_AtGate(r) =>
             /\ SentInLastHour(CurId(run[r]), clock) >= C3_Ceiling(CurId(run[r]))
                  => (CollectionsUnchanged /\ run'[r].pc # "dispatch")
             /\ (/\ SentInLastHour(CurId(run[r]), clock) < C3_Ceiling(CurId(run[r]))
                 /\ run'[r] # run[r]
                 /\ faults' = faults)
                  => run'[r].pc = "dispatch"]_vars

\* The comment of dan went through evaluation under A1 (ceiling 1) within the hour
\* after the DM to bob was sent, and left no record.
C3_Witness ==
    \E r \in Runs :
        /\ BatchDone(r, 1)
        /\ CurId(run[r]) = "A1"
        /\ Head(run[r].posts) = "P2"
        /\ SentInLastHour("A1", clock) = 1
        /\ LedgerRecords("A1", "dan") = 0

-----------------------------------------------------------------------------
(* C4 *)

\* The pairs (automation, comment) the trigger does not match.
NoMatchPairs ==
    UNION {{<<a, c>> : c \in {c \in CommentIds : NoTriggerMatch(a, c)}} : a \in AutoIds}

\* C4: for every automation A whose keyword is not "any" and every comment C
\* whose case-folded text does not contain the case-folded keyword, no reply
\* record and no DM record (sent or failed) with C's id exists for A, and no run
\* is in the dispatch stage (reply call, send call) for C under A.
C4_NoDispatchWithoutMatch ==
    /\ \A d \in BagToSet(directMessages) :
          <<d.automationId, d.commentId>> \notin NoMatchPairs
    /\ \A d \in BagToSet(commentReplies) :
          <<d.automationId, d.commentId>> \notin NoMatchPairs
    /\ \A r \in Runs :
          run[r].pc = "dispatch" => <<CurId(run[r]), CurComment(r).id>> \notin NoMatchPairs

\* Under A2 (keyword "I!") the batch of P1 with c1 (matching) and c2 (not
\* matching) went through evaluation; c1 got its record.
C4_Witness ==
    \E r \in Runs :
        /\ BatchDone(r, 2)
        /\ CurId(run[r]) = "A2"
        /\ NoTriggerMatch("A2", "c2")
        /\ LedgerRecords("A2", "bob") = 1

-----------------------------------------------------------------------------
(* C5 *)

\* The account the current automation of the run refers to.
CurAccount(r) == accounts[CurAuto(run[r]).instagramAccountId]

\* getValidTokenForAccount has returned and the caller has not yet looked at
\* the result.
TokenReturned(r) == run[r].pc = "tokenDone"

\* (a) probe succeeded: the stored credential is returned, the account is not
\* written.
C5_ProbeOk(r) ==
    run[r].tok.probe = "ok" =>
        /\ run[r].tok.returned = run[r].tok.before.accessToken
        /\ run[r].tok.writes = 0
        /\ CurAccount(r) = run[r].tok.before

\* (c) probe failed, refresh failed: null, the account is not written.
C5_RefreshFailed(r) ==
    (run[r].tok.probe = "fail" /\ run[r].tok.refresh = "fail") =>
        /\ run[r].tok.returned = Null
        /\ run[r].tok.writes = 0
        /\ CurAccount(r) = run[r].tok.before

\* (b) as the claim states it: probe failed, refresh succeeded: one update of the
\* account with the new credential, expiry and refresh timestamp; the new
\* credential is returned.
C5_RefreshOkWritten(r) ==
    /\ run[r].tok.writes = 1
    /\ run[r].tok.returned # Null
    /\ run[r].tok.returned # run[r].tok.before.accessToken
    /\ CurAccount(r).accessToken = run[r].tok.returned
    /\ CurAccount(r).lastTokenRefresh # Null
    /\ CurAccount(r).lastTokenRefresh <= clock
    /\ CurAccount(r).expiresAt = CurAccount(r).lastTokenRefresh + 3600 * 1000

\* (b) when the update of the account raises: null, the account is not written.
C5_RefreshOkNotStored(r) ==
    /\ run[r].tok.writes = 0
    /\ run[r].tok.returned = Null
    /\ CurAccount(r) = run[r].tok.before

\* When null was returned the run moves on to the next automation and writes
\* nothing.
C5_SkipsOnNull ==
    [][\A r \in Runs :
          (TokenReturned(r) /\ run[r].tok.returned = Null /\ run'[r] # run[r]
           /\ faults' = faults)
          => /\ run'[r].pc = "account"
             /\ run'[r].idx = run[r].idx + 1
             /\ accounts' = accounts
             /\ autoDb' = autoDb
             /\ CollectionsUnchanged]_vars

\* C5 (original): for every call of getValidTokenForAccount, (a) probe success:
\* stored credential returned, no write; (b) probe failure and refresh success:
\* the account is updated exactly once with the new credential, expiry and
\* refresh timestamp and the new credential is returned; (c) probe failure and
\* refresh failure: null, no write.
C5_TokenFlowAsClaimed ==
    \A r \in Runs :
        TokenReturned(r) =>
            /\ C5_ProbeOk(r)
            /\ C5_RefreshFailed(r)
            /\ (run[r].tok.probe = "fail" /\ run[r].tok.refresh = "ok")
                  => C5_RefreshOkWritten(r)

\* C5 (amended): as the original, except that in (b) the one update of the
\* account may raise, and then null is returned, the account is not written and
\* the automation is skipped like in (c).
C5_TokenFlow ==
    /\ [](\A r \in Runs :
            TokenReturned(r) =>
                /\ C5_ProbeOk(r)
                /\ C5_RefreshFailed(r)
                /\ (run[r].tok.probe = "fail" /\ run[r].tok.refresh = "ok")
                      => IF run[r].tok.stored = "ok"
                         THEN C5_RefreshOkWritten(r)
                         ELSE C5_RefreshOkNotStored(r))
    /\ C5_SkipsOnNull

\* A call in which the probe failed, the refresh succeeded and the account was
\* updated has returned.
C5_Witness ==
    \E r \in Runs :
        /\ TokenReturned(r)
        /\ run[r].tok.probe = "fail"
        /\ run[r].tok.refresh = "ok"
        /\ run[r].tok.stored = "ok"
        /\ CurAccount(r).accessToken = run[r].tok.returned

-----------------------------------------------------------------------------
(* C6, C7, C8: the lastChecked checkpoint *)

\* The run is processing the scope of an automation (its posts and their comments).
InScope(r) == run[r].pc \in {"fetch", "comment", "dispatch"}

\* The value of lastChecked the run read when it loaded the automation.
LoadedLastChecked(r) == run[r].autos[run[r].idx].lastChecked

StoredLastChecked(r) == autoDb[CurId(run[r])].lastChecked

\* C6: in a pass over an "any post" automation the lastChecked checkpoint is
\* written exactly once, and only after all posts of the account were processed.
C6_CheckpointOnceAfterAllPosts ==
    \A r \in Runs :
        (InScope(r) /\ CurAuto(run[r]).postId = NoPost) =>
            /\ run[r].cpWrites <= 1
            /\ run[r].cpWrites = 1 => run[r].posts = <<>>

\* C7: the steps a run takes for a post whose comment fetch failed leave the
\* automation's lastChecked as it was.
C7_FetchFailureKeepsCheckpoint ==
    [][\A r \in Runs :
          (InBatch(r) /\ ~run[r].fetchOk)
          => autoDb'[CurId(run[r])].lastChecked = StoredLastChecked(r)]_vars

\* C8: while a run has not gone through every comment of an automation's scope
\* (posts left to fetch, or a batch in progress), the stored lastChecked is the
\* value the run read before fetching.
C8_CheckpointHeldUntilScopeDone ==
    \A r \in Runs :
        (InScope(r) /\ run[r].posts # <<>>) => StoredLastChecked(r) = LoadedLastChecked(r)

-----------------------------------------------------------------------------
(* C9 *)

\* C9: a run that got past loading the automations ends with the summary, after
\* the loop has entered every active automation, whatever failed on the way; the
\* error indicator is returned only when loading failed, before the loop.
C9_RunIsolation ==
    \A r \in Runs :
        run[r].pc = "done" =>
            \/ /\ run[r].result.kind = "summary"
               /\ run[r].visited = active
               /\ run[r].result.automationsProcessed = Cardinality(active)
            \/ /\ run[r].result.kind = "error"
               /\ run[r].autos = <<>>
               /\ run[r].visited = {}

\* A run over A3 (account missing), A1 and A4 (post missing) has returned the
\* summary.
C9_Witness ==
    \E r \in Runs :
        /\ run[r].pc = "done"
        /\ run[r].result.kind = "summary"
        /\ run[r].visited = {"A3", "A1", "A4"}

-----------------------------------------------------------------------------
(* C10 *)

\* C10: the summary's commentsProcessed is the number of comments fetched in the
\* run and its messagesSent the number of DMs sent in the run.
C10_SummaryCounts ==
    \A r \in Runs :
        (run[r].pc = "done" /\ run[r].result.kind = "summary") =>
            /\ run[r].result.commentsProcessed = run[r].fetched
            /\ run[r].result.messagesSent = run[r].sentOk

-----------------------------------------------------------------------------
(* Vocabulary of the claims about one dispatch (reply step and DM step) *)

\* DM records in dms of automation a for comment c with the given status.
DmCount(dms, a, c, status) ==
    CountOf(dms, {d \in BagToSet(dms) :
                     d.automationId = a /\ d.commentId = c /\ d.status = status})

\* Sent DM records (direct / opening) in dms for the pair (a, u).
SentIn(dms, a, u) ==
    CountOf(dms, {d \in BagToSet(dms) :
                     d.automationId = a /\ d.recipientUsername = u /\ IsSentDM(d)})

\* DM records of any status in dms for the pair (a, u).
LedgerIn(dms, a, u) ==
    CountOf(dms, {d \in BagToSet(dms) : d.automationId = a /\ d.recipientUsername = u})

\* Reply records in replies of automation a for comment c.
ReplyCount(replies, a, c) ==
    CountOf(replies, {d \in BagToSet(replies) :
                         d.automationId = a /\ d.commentId = c /\ d.status = "sent"})

\* The step is the dispatch of run r for its current comment.
Dispatches(r) == run[r].pc = "dispatch" /\ run'[r].last # run[r].last

\* The counters of the automation are as they were.
StatsUnchanged(a) ==
    /\ autoDb'[a].totalDMsSent = autoDb[a].totalDMsSent
    /\ autoDb'[a].lastTriggered = autoDb[a].lastTriggered

\* The run left the loop over the comments of the post without the checkpoint.
PostAborted(r) ==
    /\ run'[r].pc = "fetch"
    /\ run'[r].posts = Tail(run[r].posts)
    /\ autoDb'[CurId(run[r])].lastChecked = autoDb[CurId(run[r])].lastChecked

-----------------------------------------------------------------------------
(* C11 *)

\* The remote message send was rejected in this step.
SendRejected(r) == Dispatches(r) /\ run'[r].last.dm = "sendFailed"

\* What the claim states for a rejected send: one failed record with the error
\* detail for (automation, recipient, comment), no sent record, counters as they
\* were, and a ledger record for the pair that suppresses the recipient from
\* then on.
C11_FailedLogged(r) ==
    LET a == CurId(run[r])
        c == CurComment(r)
    IN
    /\ DmCount(directMessages', a, c.id, "failed")
          = DmCount(directMessages, a, c.id, "failed") + 1
    /\ \E d \in BagToSet(directMessages') :
          /\ d.automationId = a /\ d.recipientUsername = c.username
          /\ d.commentId = c.id /\ d.status = "failed" /\ d.error = "send"
    /\ DmCount(directMessages', a, c.id, "sent") = DmCount(directMessages, a, c.id, "sent")
    /\ SentIn(directMessages', a, c.username) = 0
    /\ LedgerIn(directMessages', a, c.username) = 1
    /\ StatsUnchanged(a)

\* C11 (original): when the remote send is rejected for a comment, exactly one
\* failed DM record with the error detail is appended for (automation,
\* recipient, comment), no sent record is appended, totalDMsSent and
\* lastTriggered are unchanged, and the recipient is not attempted again in the
\* run (the pair has its ledger record).
C11_SendFailureAsClaimed ==
    [][\A r \in Runs : SendRejected(r) => C11_FailedLogged(r)]_vars

\* C11 (amended): as the original when the insert of the failed record succeeds;
\* when that insert raises, no DM record is written for the comment, the
\* counters are unchanged and the rest of the post is given up without a
\* checkpoint write.
C11_SendFailure ==
    [][\A r \in Runs :
          SendRejected(r) =>
             IF run'[r].last.logged
             THEN C11_FailedLogged(r)
             ELSE /\ directMessages' = directMessages
                  /\ StatsUnchanged(CurId(run[r]))
                  /\ faults' > faults
                  /\ PostAborted(r)]_vars

\* A send was rejected under A1 for a comment of bob and logged; the pair has
\* its failed record and no sent record.
C11_Witness ==
    \E r \in Runs :
        /\ run[r].last.dm = "sendFailed"
        /\ run[r].last.logged
        /\ CurId(run[r]) = "A1"
        /\ LedgerRecords("A1", "bob") = 1
        /\ SentDMs("A1", "bob") = 0

-----------------------------------------------------------------------------
(* C12 *)

\* The lookup of the recipient's user id failed in this step.
LookupFailed(r) == Dispatches(r) /\ run'[r].last.dm = "lookupFailed"

\* C12: when the recipient's handle cannot be resolved, the DM step is given up
\* and no DM record (sent or failed) is created for the comment, while the reply
\* records of the comment stay in place.
C12_LookupFailureLeavesNoDmRecord ==
    [][\A r \in Runs :
          LookupFailed(r) =>
             LET a == CurId(run[r])
                 c == CurComment(r)
             IN
             /\ DmCount(directMessages', a, c.id, "sent")
                   = DmCount(directMessages, a, c.id, "sent")
             /\ DmCount(directMessages', a, c.id, "failed")
                   = DmCount(directMessages, a, c.id, "failed")
             /\ ReplyCount(commentReplies', a, c.id) >= ReplyCount(commentReplies, a, c.id)]_vars

-----------------------------------------------------------------------------
(* C13 *)

\* The reply call of this step succeeded on the remote side.
ReplyCallOk(out) == out.reply \in {"replied", "repliedInsertRaised"}

\* The DM step ran: it ended in one of its outcomes.
DmAttempted(out) ==
    out.dm \in {"lookupFailed", "sendFailed", "sent", "sentInsertRaised", "sentStatsRaised"}

-----------------------------------------------------------------------------
(* C14 *)

\* A store operation of run r raised in this step (the run was not killed).
StoreRaisedIn(r) ==
    /\ InScope(r)
    /\ faults' > faults
    /\ run'[r].pc # "idle"

\* Nothing is left to process for the automation the run was at.
AutomationStopped(r) ==
    \/ run'[r].idx = run[r].idx + 1
    \/ run'[r].pc = "fetch" /\ run'[r].posts = <<>>

\* C14: when a store operation raises while an automation is being processed,
\* processing of that automation stops for the run: no further comment and no
\* further post of it is processed.
C14_StoreFailureStopsAutomation ==
    [][\A r \in Runs : StoreRaisedIn(r) => AutomationStopped(r)]_vars

-----------------------------------------------------------------------------
(* C15 *)

\* Reply records with status sent for the pair (a, u).
SentReplies(a, u) ==
    CountOf(commentReplies,
            {d \in BagToSet(commentReplies) :
                d.automationId = a /\ d.username = u /\ d.status = "sent"})

\* C15: for every (automation, recipient) pair at most one record of kind reply
\* with status sent exists, after any number of sequential runs in which remote
\* calls and store writes may fail.
C15_AtMostOneSentReply ==
    \A a \in AutoIds, u \in Usernames : SentReplies(a, u) <= 1

-----------------------------------------------------------------------------
(* C16 *)

\* No insert of a DM record raised in the dispatch with outcome out.
InsertsOk(out) ==
    \/ out.dm = "sent"
    \/ out.dm \in {"lookupFailed", "sendFailed", "sentStatsRaised"} /\ out.logged

\* Every record of the ledger is still there, as it was.
AppendOnly ==
    \A d \in BagToSet(directMessages) :
        CopiesIn(d, directMessages') >= CopiesIn(d, directMessages)

\* C16: every DM dispatch attempt for a comment (one whose record inserts go
\* through) appends exactly one DM record, sent or failed and never both, also
\* when the stats update after a successful send fails; and no step modifies or
\* deletes a ledger record.
C16_OneRecordPerAttempt ==
    [][/\ AppendOnly
       /\ \A r \in Runs :
             (Dispatches(r) /\ InsertsOk(run'[r].last)) =>
                LET a == CurId(run[r])
                    c == CurComment(r)
                IN
                DmCount(directMessages', a, c.id, "sent")
                  + DmCount(directMessages', a, c.id, "failed")
                = DmCount(directMessages, a, c.id, "sent")
                  + DmCount(directMessages, a, c.id, "failed") + 1]_vars

-----------------------------------------------------------------------------
(* C17 *)

\* C17: under sequential runs with time advancing during a pass, in every state
\* and for every automation the number of sent DM records whose sentAt lies in
\* the 60 minutes before the current time is at most the automation's ceiling.
C17_SlidingWindow ==
    \A d \in BagToSet(directMessages) :
        SentInLastHour(d.automationId, clock) <= C3_Ceiling(d.automationId)

\* One pass over A1 (ceiling 1) sent a DM to bob and, after the clock advanced,
\* a DM to dan: two sent records, one of them inside the window.
C17_Witness ==
    \E r \in Runs :
        /\ run[r].sentOk = 2
        /\ run[r].idx \in DOMAIN run[r].autos
        /\ CurId(run[r]) = "A1"
        /\ SentDMs("A1", "bob") = 1
        /\ SentDMs("A1", "dan") = 1
        /\ SentInLastHour("A1", clock) = 1

-----------------------------------------------------------------------------
(* C18 *)

\* C18: with two runs overlapping, a pair (automation, recipient) can get as
\* many sent records as there are runs, and the sent records of an automation
\* inside the window can exceed its ceiling by one per additional run; as long
\* as one of the two runs has not started (the other runs alone), the pair has
\* at most one sent record and the window stays within the ceiling.
C18_OverlapBreaksGuarantees ==
    /\ \A a \in AutoIds, u \in Usernames : SentDMs(a, u) <= Cardinality(Runs)
    /\ \A a \in AutoIds :
          SentInLastHour(a, clock) <= C3_Ceiling(a) + Cardinality(Runs) - 1
    /\ (\E r \in Runs : run[r] = InitRun) =>
          /\ \A a \in AutoIds, u \in Usernames : SentDMs(a, u) <= 1
          /\ \A a \in AutoIds : SentInLastHour(a, clock) <= C3_Ceiling(a)

\* Both runs passed the dedup query and the rate-limit count for a comment of
\* bob under A1 before either wrote its record, and both sent: two sent records
\* for the pair, and two in the window of an automation whose ceiling is 1.
C18_Witness ==
    /\ \A r \in Runs : run[r].sentOk >= 1
    /\ SentDMs("A1", "bob") = 2
    /\ SentInLastHour("A1", clock) > C3_Ceiling("A1")

-----------------------------------------------------------------------------
(* C19 *)

\* Messages the remote side accepted for recipient u on behalf of automation a.
Delivered(a, u) == CopiesIn(<<a, u>>, inbox)

\* C19: for every (automation, recipient) pair the remote DM send succeeds at
\* most once across serialized runs, also when store writes fail after a
\* successful send.
C19_AtMostOneDelivery ==
    \A a \in AutoIds, u \in Usernames : Delivered(a, u) <= 1

-----------------------------------------------------------------------------
(* C20 *)

\* The step logs "Rate limit reached" for comment c under automation a.
SkipsForRateLimit(a, c) == <<a, c>> \in rateLimited' /\ <<a, c>> \notin rateLimited

\* Run r is at the end of a batch and writes the checkpoint in this step.
WritesCheckpoint(r) ==
    /\ run[r].pc = "comment"
    /\ run[r].comments = <<>>
    /\ run'[r] # run[r]
    /\ faults' = faults

====
